---- MODULE Spec2Model ----
(***************************************************************************)
(* Model of app/main.py, the Streamlit dashboard of the solar radiation    *)
(* analysis: one render of the script (page config, sidebar, title, the    *)
(* try block that loads three CSV files, combines them, renders the        *)
(* selected section and the ANOVA line, the except handler, the footer),   *)
(* and the pure functions load_data, combine_data, summary_statistics,     *)
(* run_anova and plot_average_ghi.                                         *)
(*                                                                         *)
(* Numbers.  Measurements are integers; a DataFrame cell is <<v>> for the  *)
(* number v and <<>> for pandas' NaN.  Aggregates are exact rationals      *)
(* [num, den] in lowest terms (the standard deviation is kept as the       *)
(* rational under the square root), so two aggregates are equal exactly    *)
(* when the real numbers they denote are equal.  float64 rounding is not   *)
(* modelled.                                                               *)
(***************************************************************************)
EXTENDS Integers, Sequences, FiniteSets, TLC

VARIABLES
    files,              \* the file system: path -> what is at that path
    pc,                 \* position of the script in the current render
    page,               \* elements emitted to the main page, in order
    report_sections,    \* value of the sidebar radio (line 89)
    metric,             \* value of the metric selectbox (line 112)
    benin_data,         \* line 97
    sierra_leone_data,  \* line 98
    togo_data,          \* line 99
    combined_data,      \* line 102; in SpecFn the argument of the function calls
    exc,                \* the exception propagating out of the try block
    steps,              \* statements of the try block executed so far, in order
    last_error_text,    \* banner text of the latest earlier render that failed
                        \* on a missing file (<<>> when there was none)
    summary_stats,      \* SpecFn: result of the first summary_statistics call
    summary_again,      \* SpecFn: result of the call on the reordered rows
    avg_ghi             \* SpecFn: the bars drawn by plot_average_ghi, left to right

vars == <<files, pc, page, report_sections, metric, benin_data,
          sierra_leone_data, togo_data, combined_data, exc, steps,
          last_error_text, summary_stats, summary_again, avg_ghi>>

fnVars == <<summary_stats, summary_again, avg_ghi>>

(***************************************************************************)
(* Bounds and input sets                                                   *)
(***************************************************************************)
\* rows per CSV file in the render specification
MaxFileRows == 2

\* rows of the combined dataset handed to the functions in SpecFn
MaxRows == 3

Metrics == <<"GHI", "DNI", "DHI">>

MetricSet == {"GHI", "DNI", "DHI"}

Sections == {"Summary Statistics", "Boxplots", "Average GHI"}

BeninPath == "../notebooks/data/benin_clean.csv"

SierraLeonePath == "../notebooks/data/sierraleone-bumbuna_clean.csv"

TogoPath == "../notebooks/data/togo-dapaong_qc_clean.csv"

Paths == {BeninPath, SierraLeonePath, TogoPath}

\* the country labels in ascending (lexicographic) label order
CountryOrder == <<"Benin", "Sierra Leone", "Togo">>

Countries == {"Benin", "Sierra Leone", "Togo"}

(***************************************************************************)
(* Cells, rationals, sequences                                             *)
(***************************************************************************)
NaN == <<>>

Num(v) == <<v>>

IsNaN(cell) == cell = <<>>

Abs(n) == IF n < 0 THEN -n ELSE n

RECURSIVE GCD(_, _)
GCD(a, b) == IF b = 0 THEN a ELSE GCD(b, a % b)

\* n/d in lowest terms, d > 0
Rational(n, d) ==
    LET g == GCD(Abs(n), d)
    IN  [num |-> n \div g, den |-> d \div g]

\* p <= q for rationals
RatLeq(p, q) == p.num * q.den <= q.num * p.den

RECURSIVE SeqSum(_)
SeqSum(s) == IF s = <<>> THEN 0 ELSE Head(s) + SeqSum(Tail(s))

RECURSIVE SeqSumSq(_)
SeqSumSq(s) == IF s = <<>> THEN 0 ELSE Head(s) * Head(s) + SeqSumSq(Tail(s))

\* insertion of x into the ascending sequence s
RECURSIVE Insert(_, _)
Insert(x, s) ==
    IF s = <<>> THEN <<x>>
    ELSE IF x <= Head(s) THEN <<x>> \o s
    ELSE <<Head(s)>> \o Insert(x, Tail(s))

RECURSIVE Sorted(_)
Sorted(s) == IF s = <<>> THEN <<>> ELSE Insert(Head(s), Sorted(Tail(s)))

\* all sequences over S of length at most n
SeqsUpTo(S, n) == UNION {[1..k -> S] : k \in 0..n}

(***************************************************************************)
(* DataFrames and exceptions                                               *)
(*   DataFrame: [columns: set of names, rows: sequence of name -> cell]    *)
(*   a call's outcome: [exc: the exception raised or NoException,          *)
(*                      value: the value returned]                         *)
(***************************************************************************)
\* a name that is not bound to a DataFrame (load_data always adds Country)
Unbound == [columns |-> {}, rows |-> <<>>]

NoException == [type |-> "None", str |-> <<>>]

Return(v) == [exc |-> NoException, value |-> v]

Raise(e) == [exc |-> e, value |-> Unbound]

\* os.path.exists: true of files and of directories
os_path_exists(path) == files[path].kind # "missing"

\* pd.read_csv of an existing path
read_csv(path) ==
    CASE files[path].kind = "directory" ->
            Raise([type |-> "IsADirectoryError",
                   str |-> <<"[Errno 21] Is a directory: ", path>>])
      [] files[path].kind = "malformed" ->
            Raise([type |-> "ParserError", str |-> <<"Error tokenizing data">>])
      [] OTHER -> Return(files[path].table)

\* data['Country'] = country_name
AssignCountry(data, country_name) ==
    [columns |-> data.columns \cup {"Country"},
     rows |-> [i \in 1..Len(data.rows) |->
                 [c \in data.columns \cup {"Country"} |->
                     IF c = "Country" THEN country_name ELSE data.rows[i][c]]]]

\* load_data that answers a nonexistent path with an empty dataset
load_data_SilentEmpty(path, country_name) ==
    IF ~os_path_exists(path)
    THEN Return([columns |-> {"Country"}, rows |-> <<>>])
    ELSE LET data == read_csv(path)
         IN  IF data.exc # NoException THEN data
             ELSE Return(AssignCountry(data.value, country_name))

load_data(path, country_name) ==
    IF ~os_path_exists(path)
    THEN Raise([type |-> "FileNotFoundError", str |-> <<"File not found: ", path>>])
    ELSE LET data == read_csv(path)
         IN  IF data.exc # NoException THEN data
             ELSE Return(AssignCountry(data.value, country_name))

\* a frame's rows over the columns cols, NaN where the frame has no such column
Reindex(df, cols) ==
    [i \in 1..Len(df.rows) |->
        [c \in cols |-> IF c \in df.columns THEN df.rows[i][c] ELSE NaN]]

\* the rows of s without the repetitions of an earlier row
RECURSIVE DropDuplicates(_)
DropDuplicates(s) ==
    IF s = <<>> THEN <<>>
    ELSE LET front == DropDuplicates(SubSeq(s, 1, Len(s) - 1))
             last == s[Len(s)]
         IN  IF \E i \in 1..Len(front) : front[i] = last THEN front
             ELSE Append(front, last)

\* combine_data with .drop_duplicates() after the concatenation
combine_data_DropDuplicates(benin, sierra_leone, togo) ==
    LET cols == benin.columns \cup sierra_leone.columns \cup togo.columns
    IN  [columns |-> cols,
         rows |-> DropDuplicates(Reindex(benin, cols) \o Reindex(sierra_leone, cols)
                                    \o Reindex(togo, cols))]

\* pd.concat([a, b, c]): the union of the columns, the rows of a, b, c in order
combine_data(benin, sierra_leone, togo) ==
    LET cols == benin.columns \cup sierra_leone.columns \cup togo.columns
    IN  [columns |-> cols,
         rows |-> Reindex(benin, cols) \o Reindex(sierra_leone, cols)
                    \o Reindex(togo, cols)]

(***************************************************************************)
(* groupby('Country') and the aggregates                                   *)
(***************************************************************************)
\* the group keys: the labels present, in ascending label order (sort=True)
GroupKeys(df) ==
    SelectSeq(CountryOrder,
              LAMBDA c : \E i \in 1..Len(df.rows) : df.rows[i]["Country"] = c)

\* the non-NaN values of column col in the rows of group c, in row order
GroupValues(df, c, col) ==
    LET F[i \in 0..Len(df.rows)] ==
            IF i = 0 THEN <<>>
            ELSE IF df.rows[i]["Country"] = c /\ ~IsNaN(df.rows[i][col])
                 THEN Append(F[i - 1], df.rows[i][col][1])
                 ELSE F[i - 1]
    IN  F[Len(df.rows)]

mean(vals) ==
    IF vals = <<>> THEN NaN ELSE <<Rational(SeqSum(vals), Len(vals))>>

\* median that takes the middle of the values as they come, unsorted
median_Unsorted(vals) ==
    LET n == Len(vals)
    IN  IF n = 0 THEN NaN
        ELSE IF n % 2 = 1 THEN <<Rational(vals[(n + 1) \div 2], 1)>>
        ELSE <<Rational(vals[n \div 2] + vals[n \div 2 + 1], 2)>>

median(vals) ==
    LET s == Sorted(vals)
        n == Len(vals)
    IN  IF n = 0 THEN NaN
        ELSE IF n % 2 = 1 THEN <<Rational(s[(n + 1) \div 2], 1)>>
        ELSE <<Rational(s[n \div 2] + s[n \div 2 + 1], 2)>>

\* sample standard deviation (ddof = 1), kept as the variance under the root
std(vals) ==
    LET n == Len(vals)
    IN  IF n < 2 THEN NaN
        ELSE <<Rational(n * SeqSumSq(vals) - SeqSum(vals) * SeqSum(vals),
                        n * (n - 1))>>

Statistics == <<"mean", "median", "std">>

Aggregate(stat, vals) ==
    CASE stat = "mean" -> mean(vals)
      [] stat = "median" -> median(vals)
      [] OTHER -> std(vals)

\* '_'.join(col) of a (metric, statistic) column
Join(col) == col[1] \o "_" \o col[2]

AggColumns == {<<Metrics[m], Statistics[s]>> : m \in 1..3, s \in 1..3}

summary_statistics(df) ==
    IF ~(MetricSet \subseteq df.columns)
    THEN Raise([type |-> "KeyError",
                str |-> <<"Columns not found: ", MetricSet \ df.columns>>])
    ELSE LET keys == GroupKeys(df)
             names == {Join(col) : col \in AggColumns}
             Col(name) == CHOOSE col \in AggColumns : Join(col) = name
         IN  Return([columns |-> names,
                     rows |-> [k \in 1..Len(keys) |->
                        [Country |-> keys[k],
                         values |-> [name \in names |->
                            Aggregate(Col(name)[2],
                                      GroupValues(df, keys[k], Col(name)[1]))]]]])

\* run_anova: KeyError when a dataset has no GHI column; the p-value is kept
\* as the three samples f_oneway is given
RowValues(df, col) ==
    [i \in 1..Len(df.rows) |-> df.rows[i][col]]

run_anova(benin, sierra_leone, togo) ==
    IF \E d \in {benin, sierra_leone, togo} : "GHI" \notin d.columns
    THEN Raise([type |-> "KeyError", str |-> <<"'GHI'">>])
    ELSE Return([f_oneway |-> <<RowValues(benin, "GHI"),
                                RowValues(sierra_leone, "GHI"),
                                RowValues(togo, "GHI")>>])

(***************************************************************************)
(* plot_average_ghi                                                        *)
(***************************************************************************)
\* groupby('Country')['GHI'].mean(): one entry per label present, label order
GroupMeanGHI(df) ==
    LET keys == GroupKeys(df)
    IN  [k \in 1..Len(keys) |->
            [Country |-> keys[k], mean |-> mean(GroupValues(df, keys[k], "GHI"))]]

\* a <= b in the order of sort_values(): ascending, NaN last
CellLeq(a, b) ==
    \/ IsNaN(b)
    \/ ~IsNaN(a) /\ ~IsNaN(b) /\ RatLeq(a[1], b[1])

IsAscending(s) ==
    \A i \in 1..Len(s) - 1 : CellLeq(s[i].mean, s[i + 1].mean)

\* sort_values(ascending=False)
sort_values_Descending(series) ==
    {[i \in 1..Len(series) |-> series[p[i]]] : p \in Permutations(1..Len(series))}
        \cap {s \in [1..Len(series) -> {series[i] : i \in 1..Len(series)}] :
                \A i \in 1..Len(s) - 1 : CellLeq(s[i + 1].mean, s[i].mean)}

\* the means left in groupby order, the sort forgotten
sort_values_Missing(series) == {series}

\* Series.sort_values() with the default kind='quicksort', which is not a
\* stable sort: every ascending arrangement of the entries is a possible result
sort_values(series) ==
    {[i \in 1..Len(series) |-> series[p[i]]] : p \in Permutations(1..Len(series))}
        \cap {s \in [1..Len(series) -> {series[i] : i \in 1..Len(series)}] :
                IsAscending(s)}

\* the outcomes of plot_average_ghi: the bars drawn left to right, or the
\* exception raised (no GHI column; nothing to plot)
plot_average_ghi(df) ==
    IF "GHI" \notin df.columns
    THEN {Raise([type |-> "KeyError", str |-> <<"Column not found: GHI">>])}
    ELSE IF Len(df.rows) = 0
    THEN {Raise([type |-> "IndexError",
                 str |-> <<"index 0 is out of bounds for axis 0 with size 0">>])}
    ELSE {[exc |-> NoException, value |-> bars] :
            bars \in sort_values(GroupMeanGHI(df))}

\* plot_boxplots that draws GHI whatever metric it is given
plot_boxplots_AlwaysGhi(df, m) ==
    IF "GHI" \notin df.columns
    THEN Raise([type |-> "ValueError",
                str |-> <<"Could not interpret value for y: ", "GHI">>])
    ELSE Return([x |-> "Country", y |-> "GHI", groups |-> GroupKeys(df)])

\* plot_boxplots: seaborn cannot interpret a y column the data does not have
plot_boxplots(df, m) ==
    IF m \notin df.columns
    THEN Raise([type |-> "ValueError",
                str |-> <<"Could not interpret value for y: ", m>>])
    ELSE Return([x |-> "Country", y |-> m, groups |-> GroupKeys(df)])

(***************************************************************************)
(* Inputs of the render specification: what can be at each of the paths    *)
(***************************************************************************)
\* rows of a CSV file that has the three metric columns
FileRows ==
    {[GHI |-> Num(10), DNI |-> Num(1), DHI |-> Num(5)],
     [GHI |-> Num(20), DNI |-> Num(2), DHI |-> Num(7)]}

\* a CSV file without a GHI column
NoGhiTable ==
    [columns |-> {"DNI", "DHI"}, rows |-> <<[DNI |-> Num(1), DHI |-> Num(5)]>>]

FileTables ==
    {[columns |-> MetricSet, rows |-> r] : r \in SeqsUpTo(FileRows, MaxFileRows)}
        \cup {NoGhiTable}

FileStates ==
    {[kind |-> "missing", table |-> Unbound],
     [kind |-> "directory", table |-> Unbound]}
        \cup {[kind |-> "table", table |-> t] : t \in FileTables}

(***************************************************************************)
(* The page                                                                *)
(***************************************************************************)
Element(kind, body) == [kind |-> kind, body |-> body]

ErrorPrefix == "An error occurred: "

\* st.error("An error occurred") without the exception
ErrorText_Generic(e) == <<ErrorPrefix>>

\* f"An error occurred: {e}"
ErrorText(e) == <<ErrorPrefix>> \o e.str

\* the positions of the elements of the given kind
Positions(kind) == {i \in 1..Len(page) : page[i].kind = kind}

Failed == exc # NoException

(***************************************************************************)
(* One render of the script, statement by statement                        *)
(***************************************************************************)
\* lines 9-38: st.set_page_config and the CSS block
PageConfig ==
    /\ pc = "page_config"
    /\ page' = <<Element("style", "css")>>
    /\ pc' = "sidebar"
    /\ UNCHANGED <<files, report_sections, metric, benin_data, sierra_leone_data,
                   togo_data, combined_data, exc, last_error_text, steps,
                   fnVars>>

\* lines 87-89: the sidebar and its radio
Sidebar ==
    /\ pc = "sidebar"
    /\ \E choice \in Sections : report_sections' = choice
    /\ pc' = "header"
    /\ UNCHANGED <<files, page, metric, benin_data, sierra_leone_data, togo_data,
                   combined_data, exc, last_error_text, steps,
                   fnVars>>

\* lines 92-93: st.title and the introduction
Header ==
    /\ pc = "header"
    /\ page' = page \o <<Element("title", "Solar Radiation Analysis Dashboard"),
                         Element("markdown", "intro")>>
    /\ pc' = "load_benin"
    /\ UNCHANGED <<files, report_sections, metric, benin_data, sierra_leone_data,
                   togo_data, combined_data, exc, last_error_text, steps,
                   fnVars>>

\* line 97
LoadBenin ==
    /\ pc = "load_benin"
    /\ LET r == load_data(BeninPath, "Benin")
       IN  /\ benin_data' = r.value
           /\ exc' = r.exc
           /\ pc' = IF r.exc # NoException THEN "except" ELSE "load_sierra_leone"
    /\ steps' = Append(steps, "load_benin")
    /\ UNCHANGED <<files, page, report_sections, metric, sierra_leone_data,
                   togo_data, combined_data, last_error_text, fnVars>>

\* line 98
LoadSierraLeone ==
    /\ pc = "load_sierra_leone"
    /\ LET r == load_data(SierraLeonePath, "Sierra Leone")
       IN  /\ sierra_leone_data' = r.value
           /\ exc' = r.exc
           /\ pc' = IF r.exc # NoException THEN "except" ELSE "load_togo"
    /\ steps' = Append(steps, "load_sierra_leone")
    /\ UNCHANGED <<files, page, report_sections, metric, benin_data, togo_data,
                   combined_data, last_error_text, fnVars>>

\* line 99
LoadTogo ==
    /\ pc = "load_togo"
    /\ LET r == load_data(TogoPath, "Togo")
       IN  /\ togo_data' = r.value
           /\ exc' = r.exc
           /\ pc' = IF r.exc # NoException THEN "except" ELSE "combine"
    /\ steps' = Append(steps, "load_togo")
    /\ UNCHANGED <<files, page, report_sections, metric, benin_data,
                   sierra_leone_data, combined_data, last_error_text, fnVars>>

\* line 102
CombineData ==
    /\ pc = "combine"
    /\ combined_data' = combine_data(benin_data, sierra_leone_data, togo_data)
    /\ pc' = "section"
    /\ steps' = Append(steps, "combine")
    /\ UNCHANGED <<files, page, report_sections, metric, benin_data,
                   sierra_leone_data, togo_data, exc, last_error_text, fnVars>>

\* lines 105-108
SectionSummary ==
    /\ pc = "section"
    /\ report_sections = "Summary Statistics"
    /\ LET r == summary_statistics(combined_data)
       IN  /\ page' = page \o <<Element("header", "Summary Statistics")>>
                        \o (IF r.exc # NoException THEN <<>>
                            ELSE <<Element("dataframe", r.value)>>)
           /\ exc' = r.exc
           /\ pc' = IF r.exc # NoException THEN "except" ELSE "anova"
    /\ steps' = Append(steps, "section")
    /\ UNCHANGED <<files, report_sections, metric, benin_data, sierra_leone_data,
                   togo_data, combined_data, last_error_text, fnVars>>

\* lines 110-113
SectionBoxplots ==
    /\ pc = "section"
    /\ report_sections = "Boxplots"
    /\ \E choice \in MetricSet :
         LET r == plot_boxplots(combined_data, choice)
         IN  /\ metric' = choice
             /\ page' = page
                    \o <<Element("header", "Boxplots of Solar Radiation Metrics"),
                         Element("selectbox", choice)>>
                    \o (IF r.exc # NoException THEN <<>>
                        ELSE <<Element("pyplot", r.value)>>)
             /\ exc' = r.exc
             /\ pc' = IF r.exc # NoException THEN "except" ELSE "anova"
    /\ steps' = Append(steps, "section")
    /\ UNCHANGED <<files, report_sections, benin_data, sierra_leone_data,
                   togo_data, combined_data, last_error_text, fnVars>>

\* lines 115-117
SectionAverageGhi ==
    /\ pc = "section"
    /\ report_sections = "Average GHI"
    /\ \E r \in plot_average_ghi(combined_data) :
         /\ page' = page \o <<Element("header", "Average GHI by Country")>>
                      \o (IF r.exc # NoException THEN <<>>
                          ELSE <<Element("pyplot", r.value)>>)
         /\ exc' = r.exc
         /\ pc' = IF r.exc # NoException THEN "except" ELSE "anova"
    /\ steps' = Append(steps, "section")
    /\ UNCHANGED <<files, report_sections, metric, benin_data, sierra_leone_data,
                   togo_data, combined_data, last_error_text, fnVars>>

\* the ANOVA statements indented into the "Summary Statistics" branch
RunAnova_InSummaryBranch ==
    /\ pc = "anova"
    /\ LET r == run_anova(benin_data, sierra_leone_data, togo_data)
           skipped == report_sections # "Summary Statistics"
       IN  /\ page' = page \o (IF skipped \/ r.exc # NoException THEN <<>>
                               ELSE <<Element("write", <<"ANOVA p-value: ", r.value>>)>>)
           /\ exc' = IF skipped THEN NoException ELSE r.exc
           /\ pc' = IF ~skipped /\ r.exc # NoException THEN "except" ELSE "footer"
           /\ steps' = IF skipped THEN steps ELSE Append(steps, "anova")
    /\ UNCHANGED <<files, report_sections, metric, benin_data, sierra_leone_data,
                   togo_data, combined_data, last_error_text, fnVars>>

\* lines 120-121
RunAnova ==
    /\ pc = "anova"
    /\ LET r == run_anova(benin_data, sierra_leone_data, togo_data)
       IN  /\ page' = page \o (IF r.exc # NoException THEN <<>>
                               ELSE <<Element("write", <<"ANOVA p-value: ", r.value>>)>>)
           /\ exc' = r.exc
           /\ pc' = IF r.exc # NoException THEN "except" ELSE "footer"
    /\ steps' = Append(steps, "anova")
    /\ UNCHANGED <<files, report_sections, metric, benin_data, sierra_leone_data,
                   togo_data, combined_data, last_error_text, fnVars>>

\* a handler that replaces what the render has shown by the error message
ExceptHandler_ErrorOnly ==
    /\ pc = "except"
    /\ page' = <<Element("error", ErrorText(exc))>>
    /\ pc' = "footer"
    /\ UNCHANGED <<files, report_sections, metric, benin_data, sierra_leone_data,
                   togo_data, combined_data, exc, last_error_text, steps,
                   fnVars>>

\* lines 123-124
ExceptHandler ==
    /\ pc = "except"
    /\ page' = page \o <<Element("error", ErrorText(exc))>>
    /\ pc' = "footer"
    /\ UNCHANGED <<files, report_sections, metric, benin_data, sierra_leone_data,
                   togo_data, combined_data, exc, last_error_text, steps,
                   fnVars>>

\* the footer written at the end of the try block: skipped by an exception
Footer_InsideTry ==
    /\ pc = "footer"
    /\ page' = page \o (IF Failed THEN <<>>
                        ELSE <<Element("footer", "2025 Solar Radiation Analysis Dashboard")>>)
    /\ pc' = "done"
    /\ UNCHANGED <<files, report_sections, metric, benin_data, sierra_leone_data,
                   togo_data, combined_data, exc, last_error_text, steps,
                   fnVars>>

\* lines 127-131
Footer ==
    /\ pc = "footer"
    /\ page' = page \o <<Element("footer", "2025 Solar Radiation Analysis Dashboard")>>
    /\ pc' = "done"
    /\ UNCHANGED <<files, report_sections, metric, benin_data, sierra_leone_data,
                   togo_data, combined_data, exc, last_error_text, steps,
                   fnVars>>

\* the file systems one write, removal or replacement of a file leads to
OneFileChanged(fs) ==
    {[fs EXCEPT ![path] = f] : path \in Paths, f \in FileStates}

\* Streamlit runs the script again from the top, in a fresh namespace, with an
\* empty page; a file may have changed since the last render.  The banner of a
\* render that failed on a missing file is remembered.
Rerun ==
    /\ pc = "done"
    /\ files' \in {files} \cup OneFileChanged(files)
    /\ pc' = "page_config"
    /\ page' = <<>>
    /\ report_sections' = "Summary Statistics"
    /\ metric' = "GHI"
    /\ benin_data' = Unbound
    /\ sierra_leone_data' = Unbound
    /\ togo_data' = Unbound
    /\ combined_data' = Unbound
    /\ exc' = NoException
    /\ steps' = <<>>
    /\ last_error_text' =
         IF exc.type = "FileNotFoundError" THEN ErrorText(exc) ELSE last_error_text
    /\ UNCHANGED fnVars

Init ==
    /\ files \in [Paths -> FileStates]
    /\ pc = "page_config"
    /\ page = <<>>
    /\ report_sections = "Summary Statistics"
    /\ metric = "GHI"
    /\ benin_data = Unbound
    /\ sierra_leone_data = Unbound
    /\ togo_data = Unbound
    /\ combined_data = Unbound
    /\ exc = NoException
    /\ steps = <<>>
    /\ last_error_text = <<>>
    /\ summary_stats = Unbound
    /\ summary_again = Unbound
    /\ avg_ghi = <<>>

Next ==
    \/ PageConfig
    \/ Sidebar
    \/ Header
    \/ LoadBenin
    \/ LoadSierraLeone
    \/ LoadTogo
    \/ CombineData
    \/ SectionSummary
    \/ SectionBoxplots
    \/ SectionAverageGhi
    \/ RunAnova
    \/ ExceptHandler
    \/ Footer
    \/ Rerun

Spec == Init /\ [][Next]_vars

(***************************************************************************)
(* The functions on arbitrary combined datasets: the rows of the three     *)
(* countries in any order                                                  *)
(***************************************************************************)
\* the (GHI, DNI, DHI) measurements of a row
Measurements ==
    {<<10, 1, 5>>, <<20, 2, 7>>, <<30, 1, 7>>, <<20, 3, 5>>}

FnRows ==
    {[c \in MetricSet \cup {"Country"} |->
        CASE c = "Country" -> country
          [] c = "GHI" -> Num(m[1])
          [] c = "DNI" -> Num(m[2])
          [] OTHER -> Num(m[3])] : country \in Countries, m \in Measurements}

\* rows i and i + 1 exchanged
SwapRows(df, i) ==
    [df EXCEPT !.rows = [k \in 1..Len(df.rows) |->
        IF k = i THEN df.rows[i + 1] ELSE IF k = i + 1 THEN df.rows[i]
        ELSE df.rows[k]]]

InitFn ==
    /\ combined_data \in
         {[columns |-> MetricSet \cup {"Country"}, rows |-> r] :
            r \in SeqsUpTo(FnRows, MaxRows)}
    /\ files = [path \in Paths |-> [kind |-> "missing", table |-> Unbound]]
    /\ pc = "fn_input"
    /\ page = <<>>
    /\ report_sections = "Summary Statistics"
    /\ metric = "GHI"
    /\ benin_data = Unbound
    /\ sierra_leone_data = Unbound
    /\ togo_data = Unbound
    /\ exc = NoException
    /\ steps = <<>>
    /\ last_error_text = <<>>
    /\ summary_stats = Unbound
    /\ summary_again = Unbound
    /\ avg_ghi = <<>>

\* summary_stats = summary_statistics(combined_data)
CallSummaryStatistics ==
    /\ pc = "fn_input"
    /\ summary_stats' = summary_statistics(combined_data).value
    /\ summary_again' = summary_stats'
    /\ pc' = "fn_summary"
    /\ UNCHANGED <<files, page, report_sections, metric, benin_data,
                   sierra_leone_data, togo_data, combined_data, exc, steps,
                   last_error_text, avg_ghi>>

\* two neighbouring, different rows change places and summary_statistics is
\* called on the reordered dataset
ReorderRows ==
    /\ pc \in {"fn_summary", "fn_reordered"}
    /\ \E i \in 1..Len(combined_data.rows) - 1 :
         /\ combined_data.rows[i] # combined_data.rows[i + 1]
         /\ combined_data' = SwapRows(combined_data, i)
    /\ summary_again' = summary_statistics(combined_data').value
    /\ pc' = "fn_reordered"
    /\ UNCHANGED <<files, page, report_sections, metric, benin_data,
                   sierra_leone_data, togo_data, exc, steps, last_error_text,
                   summary_stats, avg_ghi>>

\* plot_average_ghi(combined_data)
CallPlotAverageGhi ==
    /\ pc = "fn_input"
    /\ \E r \in plot_average_ghi(combined_data) :
         /\ avg_ghi' = r.value
         /\ exc' = r.exc
    /\ pc' = "fn_plot"
    /\ UNCHANGED <<files, page, report_sections, metric, benin_data,
                   sierra_leone_data, togo_data, combined_data, steps,
                   last_error_text, summary_stats, summary_again>>

NextFn ==
    \/ CallSummaryStatistics
    \/ ReorderRows
    \/ CallPlotAverageGhi

SpecFn == InitFn /\ [][NextFn]_vars

(***************************************************************************)
(* Vocabulary of the properties                                            *)
(***************************************************************************)
\* the statement of the try block has been executed in this render
Did(step) == \E i \in 1..Len(steps) : steps[i] = step

\* the statement raised the exception that left the try block
FailedAt(step) == Failed /\ steps # <<>> /\ steps[Len(steps)] = step

SectionKinds == {"header", "dataframe", "selectbox", "pyplot"}

SectionPositions == {i \in 1..Len(page) : page[i].kind \in SectionKinds}

\* the kind of element that carries the output of the selected section
OutputKind == IF report_sections = "Summary Statistics" THEN "dataframe" ELSE "pyplot"

\* the countries that have a row in df
Present(df) == {c \in Countries : \E i \in 1..Len(df.rows) : df.rows[i]["Country"] = c}

\* the GHI values of country c, their sum and their number
Ghi(c) == GroupValues(combined_data, c, "GHI")

\* mean GHI of c <= mean GHI of d, both with at least one value
MeanLeq(c, d) == SeqSum(Ghi(c)) * Len(Ghi(d)) <= SeqSum(Ghi(d)) * Len(Ghi(c))

MeanEq(c, d) == MeanLeq(c, d) /\ MeanLeq(d, c)

\* the first row of country c in the combined dataset
FirstRow(c) ==
    CHOOSE i \in 1..Len(combined_data.rows) :
        /\ combined_data.rows[i]["Country"] = c
        /\ \A k \in 1..i - 1 : combined_data.rows[k]["Country"] # c

PlotDrawn == pc = "fn_plot" /\ exc = NoException

(***************************************************************************)
(* C1                                                                      *)
(***************************************************************************)
\* C1 as stated: on a failed render the page holds the single error message
\* and no output of a section that had already been computed: when the section
\* was produced and run_anova then fails, nothing of the section is on the page.
C1_NoPartialRendering ==
    (pc = "done" /\ Failed) =>
        /\ Cardinality(Positions("error")) = 1
        /\ FailedAt("anova") => SectionPositions = {}

\* C1 (amended): a failed render shows exactly one error message, directly
\* above the footer, and no ANOVA line; what was emitted before the failing
\* statement stays on the page.  The section header is on the page exactly when
\* the section was entered, and when run_anova is the statement that fails the
\* header and the table or chart of the section are on the page above the
\* error message.  When a load fails there is no section output.
C1_ErrorKeepsEarlierOutput ==
    (pc = "done" /\ Failed) =>
        /\ Positions("error") = {Len(page) - 1}
        /\ page[Len(page) - 1].body = ErrorText(exc)
        /\ Positions("write") = {}
        /\ (Positions("header") # {}) <=> Did("section")
        /\ ~Did("section") => SectionPositions = {}
        /\ FailedAt("anova") =>
             \E h \in Positions("header"), o \in Positions(OutputKind) :
                 h < o /\ o < Len(page) - 1

C1_Witness ==
    /\ pc = "done"
    /\ FailedAt("anova")
    /\ Positions("dataframe") # {}

(***************************************************************************)
(* C2                                                                      *)
(***************************************************************************)
\* C2: a render in which nothing fails shows, whatever the radio selection,
\* exactly one ANOVA line, computed from the GHI columns of the three loaded
\* datasets, below the header and the output of the selected section.
C2_AnovaAlwaysAfterSection ==
    (pc = "done" /\ ~Failed) =>
        /\ Positions("write") = {Len(page) - 1}
        /\ page[Len(page) - 1].body =
             <<"ANOVA p-value: ",
               [f_oneway |-> <<RowValues(benin_data, "GHI"),
                               RowValues(sierra_leone_data, "GHI"),
                               RowValues(togo_data, "GHI")>>]>>
        /\ Positions("header") # {}
        /\ Positions(OutputKind) # {}
        /\ \A i \in SectionPositions : i < Len(page) - 1

C2_Witness ==
    /\ pc = "done"
    /\ ~Failed
    /\ report_sections = "Average GHI"
    /\ Positions("write") # {}
    /\ Positions("pyplot") # {}

(***************************************************************************)
(* C3                                                                      *)
(***************************************************************************)
\* what the statement data = load_data(path, label) has left behind
LoadedTable(path, step, data, label) ==
    /\ ~FailedAt(step)
    /\ data.columns = files[path].table.columns \cup {"Country"}
    /\ Len(data.rows) = Len(files[path].table.rows)
    /\ \A i \in 1..Len(data.rows) :
         /\ data.rows[i]["Country"] = label
         /\ \A c \in files[path].table.columns : data.rows[i][c] = files[path].table.rows[i][c]

MissingFileError(path, step, data) ==
    /\ FailedAt(step)
    /\ exc = [type |-> "FileNotFoundError", str |-> <<"File not found: ", path>>]
    /\ data = Unbound

OtherError(path, step, data) ==
    /\ FailedAt(step)
    /\ exc.type # "FileNotFoundError"
    /\ data = Unbound

LoadAsClaimed(path, step, data, label) ==
    Did(step) =>
        IF files[path].kind = "table" THEN LoadedTable(path, step, data, label)
        ELSE MissingFileError(path, step, data)

LoadAsAmended(path, step, data, label) ==
    Did(step) =>
        CASE files[path].kind = "table" -> LoadedTable(path, step, data, label)
          [] files[path].kind = "missing" -> MissingFileError(path, step, data)
          [] OTHER -> OtherError(path, step, data)

\* C3 as stated: a path that is nonexistent or exists without being a readable
\* file fails with the missing-file error; a readable table is returned with
\* the Country column set to the label on every row.
C3_MissingFileErrorForUnreadable ==
    /\ LoadAsClaimed(BeninPath, "load_benin", benin_data, "Benin")
    /\ LoadAsClaimed(SierraLeonePath, "load_sierra_leone", sierra_leone_data, "Sierra Leone")
    /\ LoadAsClaimed(TogoPath, "load_togo", togo_data, "Togo")

\* C3 (amended): a nonexistent path fails with the missing-file error; an
\* existing path that is not a readable file (a directory) fails with the
\* error of pd.read_csv, which is not the missing-file error; neither returns
\* a dataset.  A readable table is returned with its rows and columns and a
\* Country column holding the label on every row.
C3_LoadDataContract ==
    /\ LoadAsAmended(BeninPath, "load_benin", benin_data, "Benin")
    /\ LoadAsAmended(SierraLeonePath, "load_sierra_leone", sierra_leone_data, "Sierra Leone")
    /\ LoadAsAmended(TogoPath, "load_togo", togo_data, "Togo")

C3_Witness ==
    /\ pc = "done"
    /\ files[BeninPath].kind = "table"
    /\ Len(benin_data.rows) = 2
    /\ files[SierraLeonePath].kind = "directory"
    /\ FailedAt("load_sierra_leone")

(***************************************************************************)
(* C4                                                                      *)
(***************************************************************************)
\* row k of the combined dataset is row i of the dataset df: the same cells,
\* and NaN in the columns df does not have
SameRow(k, df, i) ==
    \A c \in combined_data.columns :
        combined_data.rows[k][c] = (IF c \in df.columns THEN df.rows[i][c] ELSE NaN)

\* C4: the combined dataset has as many rows as the three datasets together:
\* the Benin rows, then the Sierra Leone rows, then the Togo rows, each block
\* in the order of its dataset.
C4_ConcatInSourceOrder ==
    Did("combine") =>
        LET nb == Len(benin_data.rows)
            ns == Len(sierra_leone_data.rows)
            nt == Len(togo_data.rows)
        IN  /\ Len(combined_data.rows) = nb + ns + nt
            /\ \A i \in 1..nb : SameRow(i, benin_data, i)
            /\ \A i \in 1..ns : SameRow(nb + i, sierra_leone_data, i)
            /\ \A i \in 1..nt : SameRow(nb + ns + i, togo_data, i)

C4_Witness ==
    /\ Did("combine")
    /\ Len(benin_data.rows) = 2
    /\ benin_data.rows[1] # benin_data.rows[2]
    /\ Len(sierra_leone_data.rows) = 1
    /\ Len(togo_data.rows) = 2
    /\ Len(combined_data.rows) = 5

(***************************************************************************)
(* C5                                                                      *)
(***************************************************************************)
\* C5: the chart has exactly one bar per country that has a row, each as high
\* as the mean GHI of its country, and the means do not decrease from left to
\* right.
C5_BarsAscendingByMean ==
    PlotDrawn =>
        /\ Len(avg_ghi) = Cardinality(Present(combined_data))
        /\ {avg_ghi[i].Country : i \in 1..Len(avg_ghi)} = Present(combined_data)
        /\ \A i \in 1..Len(avg_ghi) :
             avg_ghi[i].mean =
                <<Rational(SeqSum(Ghi(avg_ghi[i].Country)), Len(Ghi(avg_ghi[i].Country)))>>
        /\ \A i \in 1..Len(avg_ghi) - 1 :
             MeanLeq(avg_ghi[i].Country, avg_ghi[i + 1].Country)

\* means 20 < 30 with the later label first: the bars are not in label order
C5_Witness ==
    /\ PlotDrawn
    /\ Len(avg_ghi) = 3
    /\ avg_ghi[1].Country = "Sierra Leone"
    /\ avg_ghi[2].Country = "Benin"
    /\ ~MeanLeq("Benin", "Sierra Leone")
    /\ ~MeanLeq("Togo", "Benin")

(***************************************************************************)
(* C6                                                                      *)
(***************************************************************************)
StatisticsFailed == Failed /\ exc.type \in {"KeyError", "ValueError", "IndexError"}

\* C6 as stated: a render that fails in the statistical computation shows the
\* same error text as an earlier render that failed on a missing file.
C6_SameErrorText ==
    (pc = "done" /\ StatisticsFailed /\ last_error_text # <<>>) =>
        page[Len(page) - 1].body = last_error_text

\* C6 (amended): both kinds of failure are shown by the same kind of banner
\* with the same prefix "An error occurred: ", followed by the message of the
\* exception; the text after the prefix, and so the banner text, differs
\* between a missing file and a failed statistical computation.
C6_SamePrefixOwnMessage ==
    (pc = "done" /\ Failed) =>
        /\ page[Len(page) - 1].kind = "error"
        /\ Head(page[Len(page) - 1].body) = ErrorPrefix
        /\ Tail(page[Len(page) - 1].body) = exc.str
        /\ last_error_text # <<>> =>
             /\ Head(last_error_text) = ErrorPrefix
             /\ StatisticsFailed => page[Len(page) - 1].body # last_error_text

C6_Witness ==
    /\ pc = "done"
    /\ StatisticsFailed
    /\ FailedAt("anova")
    /\ last_error_text # <<>>

(***************************************************************************)
(* C7                                                                      *)
(***************************************************************************)
\* C7: at the end of a render the metric dropdown is on the page exactly when
\* the selection is "Boxplots" and the three loads and the combination went
\* through; it is there once, holds GHI, DNI or DHI, and a boxplot on the
\* page is the boxplot of the metric chosen in it.
C7_DropdownOnlyInBoxplots ==
    pc = "done" =>
        /\ (Positions("selectbox") # {}) <=>
              (report_sections = "Boxplots" /\ Did("combine"))
        /\ Cardinality(Positions("selectbox")) <= 1
        /\ \A s \in Positions("selectbox") :
             /\ page[s].body \in MetricSet
             /\ page[s].body = metric
             /\ \A b \in Positions("pyplot") :
                  /\ s < b
                  /\ page[b].body.x = "Country"
                  /\ page[b].body.y = page[s].body

C7_Witness ==
    /\ pc = "done"
    /\ \E s \in Positions("selectbox") : page[s].body = "DNI"
    /\ Positions("pyplot") # {}

C10_AnovaXorError ==
    pc = "done" =>
        /\ Cardinality(Positions("write")) + Cardinality(Positions("error")) = 1
        /\ (Positions("error") # {}) <=> Failed
        /\ Cardinality(Positions("title")) = 1
        /\ Positions("footer") = {Len(page)}
        /\ \A t \in Positions("title") :
             \A i \in Positions("write") \cup Positions("error") : t < i
        /\ FailedAt("load_benin") =>
             /\ steps = <<"load_benin">>
             /\ sierra_leone_data = Unbound
             /\ togo_data = Unbound
             /\ SectionPositions = {}
             /\ Positions("write") = {}

C10_Witness ==
    /\ pc = "done"
    /\ FailedAt("load_benin")
    /\ files[SierraLeonePath].kind = "table"
    /\ files[TogoPath].kind = "table"

====
